---------------------------- MODULE Spec2Model ----------------------------
(***************************************************************************)
(* k-core decomposition (gunrock/algorithms/kcore.hxx) and single-source   *)
(* betweenness centrality (gunrock/applications/bc.hxx) on the frontier    *)
(* engine: Problem arrays, the Enactor's loop / is_converged state machine *)
(* and the Advance / Filter operator calls, with every operator call       *)
(* unfolded into its lanes, which run in any order.                        *)
(*                                                                         *)
(* A Frontier is a multiset of vertex ids, kept as a function from vertex  *)
(* to its number of occurrences.  weight_t values (sigmas, deltas,         *)
(* bc_values) are kept as normalised fractions <<num, den>>.               *)
(***************************************************************************)
EXTENDS Integers, FiniteSets, Sequences, TLC

\* Graphs: every simple undirected graph on 1..MaxN vertices is an input.
MaxN == 3
\* Number of runs (reset + enact) made on one Problem.
MaxRuns == 2
\* Rounds after which a run that has not converged is no longer followed.
MaxIter == 10

VARIABLES
  alg,            \* which application runs: "kcore" or "bc"
  n, adj,         \* the Graph: vertex count, set of directed edges <<u, v>>
  run,            \* number of reset() calls made on the Problem so far
  pc,             \* position of the control path
  iteration,      \* enactor_t::iteration
  frontier,       \* the active (input) Frontier
  out,            \* the output Frontier of the operator call in progress
  pend,           \* lanes of the operator call in progress that have not run
  mid,            \* forward_op lanes between their compare-and-swap and add
  k_cores, degrees, deleted, to_be_deleted,                  \* kcore::problem_t
  single_source, sigmas, bc_values, labels, deltas,          \* bc::problem_t
  forward, depth,                                            \* bc::enactor_t
  subrounds,      \* history: Advance/Filter passes of loop()'s while so far
  prev            \* history: what the previous k-core run ended with

vars == <<alg, n, adj, run, pc, iteration, frontier, out, pend, mid,
          k_cores, degrees, deleted, to_be_deleted,
          single_source, sigmas, bc_values, labels, deltas, forward, depth,
          subrounds, prev>>

kvars == <<k_cores, degrees, deleted, to_be_deleted>>
bvars == <<single_source, sigmas, bc_values, labels, deltas, forward, depth>>
gvars == <<alg, n, adj>>
hvars == <<subrounds, prev>>

-----------------------------------------------------------------------------
(* The Graph collaborator *)

Verts(m) == 0 .. (m - 1)

V == Verts(n)

Sym(E) == E \cup {<<e[2], e[1]>> : e \in E}

UPairs(m) == {e \in Verts(m) \X Verts(m) : e[1] < e[2]}

SimpleGraphs(m) == {[n |-> m, adj |-> Sym(E)] : E \in SUBSET UPairs(m)}

\* The scenarios of the specification, the smallest graph with two shortest
\* paths to one vertex, and the smallest graph with two core numbers.
Path5 == [n |-> 5, adj |-> Sym({<<0, 1>>, <<1, 2>>, <<2, 3>>, <<3, 4>>})]
Star5 == [n |-> 5, adj |-> Sym({<<0, 1>>, <<0, 2>>, <<0, 3>>, <<0, 4>>})]
Triangle == [n |-> 3, adj |-> Sym({<<0, 1>>, <<0, 2>>, <<1, 2>>})]
Diamond == [n |-> 4, adj |-> Sym({<<0, 1>>, <<0, 2>>, <<1, 3>>, <<2, 3>>})]
Paw == [n |-> 4, adj |-> Sym({<<0, 1>>, <<0, 2>>, <<1, 2>>, <<2, 3>>})]

Graphs == UNION {SimpleGraphs(m) : m \in 1 .. MaxN}
            \cup {Path5, Star5, Triangle, Diamond, Paw}

Neighbors(v) == {w \in V : <<v, w>> \in adj}

get_number_of_neighbors(i) == Cardinality(Neighbors(i))

-----------------------------------------------------------------------------
(* Frontier *)

EmptyFrontier == [v \in V |-> 0]

\* sequence(0, n): the contiguous id range [0, n)
sequence(count) == [v \in V |-> IF v < count THEN 1 ELSE 0]

push_back(f, id) == [f EXCEPT ![id] = @ + 1]

is_empty(f) == \A v \in V : f[v] = 0

NoLanes == <<>>

\* Advance visits every edge of every element of the input Frontier.
AdvanceLanes(f) == [e \in adj |-> f[e[1]]]

\* Filter evaluates every element of the input Frontier once.
FilterLanes(f) == f

LanesLeft(p) == \E x \in DOMAIN p : p[x] > 0

\* enact(): prepare_frontier, then while (!is_converged()) { loop();
\* ++iteration; }.  The position the control path takes after
\* prepare_frontier and after every round:
enact_next == "check"

-----------------------------------------------------------------------------
(* kcore::problem_t *)

\* a fill that leaves the array as the previous run left it
fill_skipped(arr, value) == arr

fill(arr, value) == [i \in DOMAIN arr |-> value]

get_degree(i) == get_number_of_neighbors(i)

\* a reset that marks no vertex deleted
mark_zero_degrees_never(degrees_data, i) == FALSE

mark_zero_degrees(degrees_data, i) ==
  IF degrees_data[i] = 0 THEN TRUE ELSE FALSE

\* init(): resize() value-initialises the three vectors; k_cores is the
\* caller's buffer and holds whatever the caller left in it.
KInitArrays(garbage) ==
  /\ degrees = [v \in V |-> 0]
  /\ deleted = [v \in V |-> FALSE]
  /\ to_be_deleted = [v \in V |-> FALSE]
  /\ k_cores = [v \in V |-> garbage]

KReset ==
  /\ alg = "kcore"
  /\ \/ pc = "start"
     \/ pc = "done" /\ run < MaxRuns
  /\ k_cores' = fill(k_cores, 0)
  /\ to_be_deleted' = fill(to_be_deleted, FALSE)
  /\ degrees' = [i \in V |-> get_degree(i)]
  /\ deleted' = [i \in V |-> mark_zero_degrees(degrees', i)]
  /\ run' = run + 1
  /\ pc' = "reset"
  /\ prev' = IF pc = "done"
             THEN [k_cores |-> k_cores, deleted |-> deleted,
                   rounds |-> iteration, subrounds |-> subrounds]
             ELSE prev
  /\ UNCHANGED <<gvars, subrounds, bvars, iteration, frontier, out, pend,
                 mid>>

-----------------------------------------------------------------------------
(* kcore::enactor_t *)

\* A new enactor (iteration 0) and prepare_frontier; enact() then asks
\* is_converged before every round.
KPrepare ==
  /\ alg = "kcore"
  /\ pc = "reset"
  /\ iteration' = 0
  /\ frontier' = sequence(n)
  /\ out' = EmptyFrontier
  /\ pc' = enact_next
  /\ subrounds' = 0
  /\ UNCHANGED <<gvars, prev, kvars, bvars, run, pend, mid>>

\* k taken to be the iteration itself
K_iteration == iteration

\* k of the round in progress
K == iteration + 1

\* advance_op keeping a vertex whose remaining degree equals k
advance_op_strict(source, neighbor, k) ==
  IF deleted[source] = TRUE THEN [mark |-> FALSE, ret |-> FALSE]
  ELSE IF degrees[source] >= k THEN [mark |-> FALSE, ret |-> FALSE]
  ELSE [mark |-> TRUE,
        ret |-> IF deleted[neighbor] = TRUE THEN FALSE ELSE TRUE]

\* advance_op with its test of deleted[neighbor] inverted
advance_op_inverted(source, neighbor, k) ==
  IF deleted[source] = TRUE THEN [mark |-> FALSE, ret |-> FALSE]
  ELSE IF degrees[source] > k THEN [mark |-> FALSE, ret |-> FALSE]
  ELSE [mark |-> TRUE,
        ret |-> IF deleted[neighbor] = TRUE THEN TRUE ELSE FALSE]

\* advance_op in which only the first lane of a source acts
advance_op_once(source, neighbor, k) ==
  IF deleted[source] = TRUE THEN [mark |-> FALSE, ret |-> FALSE]
  ELSE IF degrees[source] > k THEN [mark |-> FALSE, ret |-> FALSE]
  ELSE IF to_be_deleted[source] = TRUE THEN [mark |-> FALSE, ret |-> FALSE]
  ELSE [mark |-> TRUE,
        ret |-> IF deleted[neighbor] = TRUE THEN FALSE ELSE TRUE]

\* advance_op without its test of deleted[source]
advance_op_remark(source, neighbor, k) ==
  IF degrees[source] > k THEN [mark |-> FALSE, ret |-> FALSE]
  ELSE [mark |-> TRUE,
        ret |-> IF deleted[neighbor] = TRUE THEN FALSE ELSE TRUE]

\* advance_op: whether the lane marks its source, and what it returns
advance_op(source, neighbor, k) ==
  IF deleted[source] = TRUE THEN [mark |-> FALSE, ret |-> FALSE]
  ELSE IF degrees[source] > k THEN [mark |-> FALSE, ret |-> FALSE]
  ELSE [mark |-> TRUE,
        ret |-> IF deleted[neighbor] = TRUE THEN FALSE ELSE TRUE]

\* filter_op testing the old value against k
filter_test_k(old_degrees, k) ==
  IF old_degrees # k THEN FALSE ELSE TRUE

\* filter_op admitting on every decrement at or below k + 1
filter_test_le(old_degrees, k) ==
  IF old_degrees > (k + 1) THEN FALSE ELSE TRUE

\* the test of filter_op on the value atomic::add returned
filter_test(old_degrees, k) ==
  IF old_degrees # (k + 1) THEN FALSE ELSE TRUE

\* filter_op: whether the lane decrements degrees[vertex], and what it returns
filter_op(vertex, k) ==
  IF deleted[vertex] = TRUE THEN [dec |-> FALSE, ret |-> FALSE]
  ELSE [dec |-> TRUE, ret |-> filter_test(degrees[vertex], k)]

\* the merge as an overwrite: earlier deletions are lost
mark_deleted_overwrite(i) == to_be_deleted[i]

mark_deleted(i) == deleted[i] \/ to_be_deleted[i]

\* any_of in place of all_of
graph_empty_any == \E v \in V : deleted[v]

graph_empty == \A v \in V : deleted[v]

\* is_converged leaving the Frontier as loop() left it
k_refill_skipped(f) == f

\* is_converged's f->sequence(0, n_vertices)
k_refill(f) == sequence(n)

\* loop() is entered: k = iteration + 1, the operators are built.
KLoop ==
  /\ alg = "kcore"
  /\ pc = "loop"
  /\ iteration < MaxIter
  /\ pc' = "while"
  /\ UNCHANGED <<gvars, hvars, kvars, bvars, run, iteration, frontier, out, pend,
                 mid>>

\* while (!f->is_empty()): either the next Advance starts or loop() returns
\* and enact() counts the round.
KLoopWhile ==
  /\ alg = "kcore"
  /\ pc = "while"
  /\ \/ /\ ~is_empty(frontier)
        /\ pend' = AdvanceLanes(frontier)
        /\ out' = EmptyFrontier
        /\ pc' = "advance"
        /\ UNCHANGED iteration
     \/ /\ is_empty(frontier)
        /\ iteration' = iteration + 1
        /\ pc' = enact_next
        /\ UNCHANGED <<pend, out>>
  /\ UNCHANGED <<gvars, hvars, kvars, bvars, run, frontier, mid>>

KAdvanceLane ==
  /\ alg = "kcore"
  /\ pc = "advance"
  /\ \E e \in DOMAIN pend :
       /\ pend[e] > 0
       /\ LET r == advance_op(e[1], e[2], K) IN
            /\ pend' = [pend EXCEPT ![e] = @ - 1]
            /\ k_cores' = IF r.mark THEN [k_cores EXCEPT ![e[1]] = K]
                          ELSE k_cores
            /\ to_be_deleted' = IF r.mark
                                THEN [to_be_deleted EXCEPT ![e[1]] = TRUE]
                                ELSE to_be_deleted
            /\ out' = IF r.ret THEN push_back(out, e[2]) ELSE out
  /\ UNCHANGED <<gvars, hvars, bvars, run, pc, iteration, frontier, mid,
                 degrees, deleted>>

\* Advance returns: its output becomes the active Frontier.
KAdvanceEnd ==
  /\ alg = "kcore"
  /\ pc = "advance"
  /\ ~LanesLeft(pend)
  /\ frontier' = out
  /\ out' = EmptyFrontier
  /\ pend' = NoLanes
  /\ pc' = "merge"
  /\ UNCHANGED <<gvars, hvars, kvars, bvars, run, iteration, mid>>

\* thrust::transform(mark_deleted), then Filter starts.
KMarkDeleted ==
  /\ alg = "kcore"
  /\ pc = "merge"
  /\ deleted' = [i \in V |-> mark_deleted(i)]
  /\ pend' = FilterLanes(frontier)
  /\ pc' = "filter"
  /\ UNCHANGED <<gvars, hvars, bvars, run, iteration, frontier, out, mid,
                 k_cores, degrees, to_be_deleted>>

KFilterLane ==
  /\ alg = "kcore"
  /\ pc = "filter"
  /\ \E v \in DOMAIN pend :
       /\ pend[v] > 0
       /\ LET r == filter_op(v, K) IN
            /\ pend' = [pend EXCEPT ![v] = @ - 1]
            /\ degrees' = IF r.dec THEN [degrees EXCEPT ![v] = @ - 1]
                          ELSE degrees
            /\ out' = IF r.ret THEN push_back(out, v) ELSE out
  /\ UNCHANGED <<gvars, hvars, bvars, run, pc, iteration, frontier, mid,
                 k_cores, deleted, to_be_deleted>>

KFilterEnd ==
  /\ alg = "kcore"
  /\ pc = "filter"
  /\ ~LanesLeft(pend)
  /\ frontier' = out
  /\ out' = EmptyFrontier
  /\ pend' = NoLanes
  /\ pc' = "while"
  /\ subrounds' = subrounds + 1
  /\ UNCHANGED <<gvars, prev, kvars, bvars, run, iteration, mid>>

\* is_converged: all_of(deleted), the Frontier refilled, the answer returned.
KIsConverged ==
  /\ alg = "kcore"
  /\ pc = "check"
  /\ frontier' = k_refill(frontier)
  /\ pc' = IF graph_empty THEN "done" ELSE "loop"
  /\ UNCHANGED <<gvars, hvars, kvars, bvars, run, iteration, out, pend, mid>>

-----------------------------------------------------------------------------
(* weight_t arithmetic, on fractions <<num, den>> in lowest terms *)

RECURSIVE GCD(_, _)
GCD(a, b) == IF b = 0 THEN a ELSE GCD(b, a % b)

QNorm(num, den) ==
  IF den = 0 THEN <<1, 0>>
  ELSE IF num = 0 THEN <<0, 1>>
  ELSE LET g == GCD(num, den) IN <<num \div g, den \div g>>

Q0 == <<0, 1>>
Q1 == <<1, 1>>
QHalf == <<1, 2>>

QAdd(a, b) == QNorm(a[1] * b[2] + b[1] * a[2], a[2] * b[2])
QMul(a, b) == QNorm(a[1] * b[1], a[2] * b[2])
QDiv(a, b) == QNorm(a[1] * b[2], a[2] * b[1])

-----------------------------------------------------------------------------
(* bc::problem_t *)

fill_n(arr, count, value) ==
  [i \in DOMAIN arr |-> IF i < count THEN value ELSE arr[i]]

\* init(): resize() value-initialises labels and deltas; sigmas and
\* bc_values are the caller's buffers.
BInitArrays(garbage) ==
  /\ labels = [v \in V |-> 0]
  /\ deltas = [v \in V |-> Q0]
  /\ sigmas = [v \in V |-> garbage]
  /\ bc_values = [v \in V |-> garbage]

\* reset(), on the first run with the parameter the Problem was built with,
\* on a later run with any parameter
BReset ==
  /\ alg = "bc"
  /\ \/ pc = "start" /\ single_source' = single_source
     \/ pc = "done" /\ run < MaxRuns /\ single_source' \in V
  /\ sigmas' = [fill_n(sigmas, n, Q0) EXCEPT ![single_source'] = Q1]
  /\ bc_values' = fill_n(bc_values, n, Q0)
  /\ labels' = [fill_n(labels, n, -1) EXCEPT ![single_source'] = 0]
  /\ deltas' = fill_n(deltas, n, Q0)
  /\ run' = run + 1
  /\ pc' = "reset"
  /\ UNCHANGED <<gvars, hvars, kvars, forward, depth, iteration, frontier, out,
                 pend, mid>>

-----------------------------------------------------------------------------
(* bc::enactor_t *)

\* A new enactor (forward = true, depth = 0, iteration 0) and
\* prepare_frontier.
BPrepare ==
  /\ alg = "bc"
  /\ pc = "reset"
  /\ iteration' = 0
  /\ forward' = TRUE
  /\ depth' = 0
  /\ frontier' = push_back(EmptyFrontier, single_source)
  /\ out' = EmptyFrontier
  /\ pc' = enact_next
  /\ UNCHANGED <<gvars, hvars, kvars, run, pend, mid,
                 single_source, sigmas, bc_values, labels, deltas>>

\* a plain store in place of the compare-and-swap
cas_store(current, compare, value) == [old |-> current, new |-> value]

\* math::atomic::cas(address, compare, value): the old value, and the value
\* left at the address
cas(current, compare, value) ==
  [old |-> current, new |-> IF current = compare THEN value ELSE current]

\* forward_op's early return with its comparison of labels inverted
forward_rejects_inverted(old_label, new_label) ==
  (old_label # -1) /\ (new_label = old_label)

\* forward_op's early return taken by every lane that lost the swap
forward_rejects_losers(old_label, new_label) == old_label # -1

\* forward_op's early return
forward_rejects(old_label, new_label) ==
  (old_label # -1) /\ (new_label # old_label)

\* forward_op's result after the add
forward_ret(old_label) == old_label = -1

\* backward_op without its test of the source's level
backward_op_anydepth(src, dst, depth_) ==
  IF src = single_source
    THEN [upd |-> FALSE, update |-> Q0, ret |-> FALSE]
  ELSE IF labels[dst] # labels[src] + 1
    THEN [upd |-> FALSE, update |-> Q0, ret |-> FALSE]
  ELSE [upd |-> TRUE,
        update |-> QMul(QDiv(sigmas[src], sigmas[dst]),
                        QAdd(Q1, deltas[dst])),
        ret |-> FALSE]

\* backward_op: whether the lane adds to deltas[src] and bc_values[src],
\* what it adds, and what it returns (false on every path).
backward_op(src, dst, depth_) ==
  IF src = single_source
    THEN [upd |-> FALSE, update |-> Q0, ret |-> FALSE]
  ELSE IF labels[src] # depth_
    THEN [upd |-> FALSE, update |-> Q0, ret |-> FALSE]
  ELSE IF labels[dst] # labels[src] + 1
    THEN [upd |-> FALSE, update |-> Q0, ret |-> FALSE]
  ELSE [upd |-> TRUE,
        update |-> QMul(QDiv(sigmas[src], sigmas[dst]),
                        QAdd(Q1, deltas[dst])),
        ret |-> FALSE]

\* a scale that does not halve
scale_whole(val) == val

scale(val) == QMul(QHalf, val)

\* is_converged switching phase without reseeding the Frontier
b_reseed_skipped(f) == f

\* is_converged's active_frontier->sequence(0, n_vertices)
b_reseed(f) == sequence(n)

\* is_converged stopping one backward round early
depth_is_one_or_less(d) == d <= 1

\* is_converged's test in the backward phase
depth_is_zero(d) == d = 0

MidLanes == [x \in adj \X BOOLEAN |-> 0]

\* loop(): the Advance of the current phase starts.
BLoop ==
  /\ alg = "bc"
  /\ pc = "loop"
  /\ iteration < MaxIter
  /\ pend' = AdvanceLanes(frontier)
  /\ out' = EmptyFrontier
  /\ \/ forward /\ mid' = MidLanes /\ pc' = "fadvance"
     \/ ~forward /\ mid' = NoLanes /\ pc' = "badvance"
  /\ UNCHANGED <<gvars, hvars, kvars, bvars, run, iteration, frontier>>

\* forward_op up to and including its compare-and-swap
BForwardCas ==
  /\ alg = "bc"
  /\ pc = "fadvance"
  /\ \E e \in DOMAIN pend :
       /\ pend[e] > 0
       /\ LET new_label == labels[e[1]] + 1
              c == cas(labels[e[2]], -1, new_label)
          IN /\ pend' = [pend EXCEPT ![e] = @ - 1]
             /\ labels' = [labels EXCEPT ![e[2]] = c.new]
             /\ mid' = IF forward_rejects(c.old, new_label) THEN mid
                       ELSE [mid EXCEPT ![<<e, forward_ret(c.old)>>] = @ + 1]
  /\ UNCHANGED <<gvars, hvars, kvars, run, pc, iteration, frontier, out,
                 single_source, sigmas, bc_values, deltas, forward, depth>>

\* forward_op's atomic add and return
BForwardAdd ==
  /\ alg = "bc"
  /\ pc = "fadvance"
  /\ \E x \in DOMAIN mid :
       /\ mid[x] > 0
       /\ LET src == x[1][1]
              dst == x[1][2]
          IN /\ mid' = [mid EXCEPT ![x] = @ - 1]
             /\ sigmas' = [sigmas EXCEPT ![dst] = QAdd(@, sigmas[src])]
             /\ out' = IF x[2] THEN push_back(out, dst) ELSE out
  /\ UNCHANGED <<gvars, hvars, kvars, run, pc, iteration, frontier, pend,
                 single_source, bc_values, labels, deltas, forward, depth>>

\* Advance returns, depth++, and enact() counts the round.
BForwardEnd ==
  /\ alg = "bc"
  /\ pc = "fadvance"
  /\ ~LanesLeft(pend)
  /\ ~LanesLeft(mid)
  /\ frontier' = out
  /\ out' = EmptyFrontier
  /\ pend' = NoLanes
  /\ mid' = NoLanes
  /\ depth' = depth + 1
  /\ iteration' = iteration + 1
  /\ pc' = enact_next
  /\ UNCHANGED <<gvars, hvars, kvars, run, single_source, sigmas, bc_values,
                 labels, deltas, forward>>

BBackwardLane ==
  /\ alg = "bc"
  /\ pc = "badvance"
  /\ \E e \in DOMAIN pend :
       /\ pend[e] > 0
       /\ LET r == backward_op(e[1], e[2], depth) IN
            /\ pend' = [pend EXCEPT ![e] = @ - 1]
            /\ deltas' = IF r.upd
                         THEN [deltas EXCEPT ![e[1]] = QAdd(@, r.update)]
                         ELSE deltas
            /\ bc_values' = IF r.upd
                            THEN [bc_values EXCEPT ![e[1]] = QAdd(@, r.update)]
                            ELSE bc_values
            /\ out' = IF r.ret THEN push_back(out, e[2]) ELSE out
  /\ UNCHANGED <<gvars, hvars, kvars, run, pc, iteration, frontier, mid,
                 single_source, sigmas, labels, forward, depth>>

\* Advance returns without swapping the Frontier buffers (its last argument
\* is false), depth--, and enact() counts the round.
BBackwardEnd ==
  /\ alg = "bc"
  /\ pc = "badvance"
  /\ ~LanesLeft(pend)
  /\ pend' = NoLanes
  /\ out' = EmptyFrontier
  /\ depth' = depth - 1
  /\ iteration' = iteration + 1
  /\ pc' = enact_next
  /\ UNCHANGED <<gvars, hvars, kvars, run, frontier, mid, single_source, sigmas,
                 bc_values, labels, deltas, forward>>

BIsConverged ==
  /\ alg = "bc"
  /\ pc = "check"
  /\ \/ /\ forward
        /\ \/ /\ is_empty(frontier)
              /\ frontier' = b_reseed(frontier)
              /\ forward' = FALSE
              /\ depth' = iteration - 1
           \/ /\ ~is_empty(frontier)
              /\ UNCHANGED <<frontier, forward, depth>>
        /\ pc' = "loop"
        /\ UNCHANGED bc_values
     \/ /\ ~forward
        /\ \/ /\ depth_is_zero(depth)
              /\ bc_values' = [v \in V |-> scale(bc_values[v])]
              /\ pc' = "done"
           \/ /\ ~depth_is_zero(depth)
              /\ pc' = "loop"
              /\ UNCHANGED bc_values
        /\ UNCHANGED <<frontier, forward, depth>>
  /\ UNCHANGED <<gvars, hvars, kvars, run, iteration, out, pend, mid,
                 single_source, sigmas, labels, deltas>>

-----------------------------------------------------------------------------
(* Reference: repeated minimum-degree peeling *)

RemDeg(rem, v) == Cardinality({w \in rem : <<v, w>> \in adj})

MinDegVertex(rem) ==
  CHOOSE v \in rem :
    \A w \in rem : \/ RemDeg(rem, v) < RemDeg(rem, w)
                   \/ RemDeg(rem, v) = RemDeg(rem, w) /\ v <= w

RECURSIVE Peel(_, _, _)
Peel(rem, k, core) ==
  IF rem = {} THEN core
  ELSE LET v == MinDegVertex(rem)
           d == RemDeg(rem, v)
           k2 == IF d > k THEN d ELSE k
       IN Peel(rem \ {v}, k2, [core EXCEPT ![v] = k2])

RefCore == Peel(V, 0, [v \in V |-> 0])

MaxCore == LET S == {RefCore[v] : v \in V}
           IN CHOOSE m \in S : \A x \in S : x <= m

KConverged == alg = "kcore" /\ pc = "done"

\* the hand-off between Filter's last lane and Filter's return
KFilterDone == alg = "kcore" /\ pc = "filter" /\ ~LanesLeft(pend)

\* remaining degree of v when the Filter call in progress started
DegBeforeFilter(v) == IF deleted[v] THEN degrees[v] ELSE degrees[v] + frontier[v]

LiveNeighbors(v) == {w \in Neighbors(v) : ~deleted[w]}

-----------------------------------------------------------------------------
(* Claims about k-core *)

\* C1: when the k-core run has converged, k_cores[v] is, for every vertex,
\* the core number the reference minimum-degree peeling gives (0 for an
\* isolated vertex), whatever order the lanes ran in.
C1_CoreNumbersMatchPeeling ==
  KConverged => \A v \in V : k_cores[v] = RefCore[v]

\* C1 witness: a converged run on a graph with core numbers 1 and 2 (the
\* peeling took more than one round and more than one sub-round).
C1_Witness ==
  /\ KConverged
  /\ \E v, w \in V : k_cores[v] = 1 /\ k_cores[w] = 2

\* C2 as stated: at convergence every vertex is deleted and the Frontier is
\* empty.
C2_Original_FrontierEmptyAtConvergence ==
  KConverged => (\A v \in V : deleted[v]) /\ is_empty(frontier)

\* C2 amended: at convergence every vertex is deleted and the Frontier holds
\* the full vertex range [0, n), each id once (is_converged refills it
\* before it returns).
C2_DeletedAndFrontierFullAtConvergence ==
  KConverged => /\ \A v \in V : deleted[v]
                /\ \A v \in V : frontier[v] = 1

\* C2 witness: a converged run in which a round actually deleted vertices.
C2_Witness ==
  KConverged /\ iteration > 0 /\ \A v \in V : deleted[v]

C8_Original_AdmitsAtKPlusOneAfter ==
  [][(alg = "kcore" /\ pc = "filter" /\ pc' = "filter") =>
       \A v \in V : out'[v] > out[v] => degrees'[v] = K + 1]_vars

\* C8 amended: a Filter lane re-admits a not-yet-deleted vertex only if the
\* counter was k + 1 before the decrement, so that it is k after it.
C8_AdmitsAtKAfter ==
  [][(alg = "kcore" /\ pc = "filter" /\ pc' = "filter") =>
       \A v \in V : out'[v] > out[v] =>
         /\ ~deleted[v]
         /\ degrees[v] = K + 1
         /\ degrees'[v] = K]_vars

\* C8 witness: a Filter call has re-admitted a vertex.
C8_Witness ==
  alg = "kcore" /\ pc = "filter" /\ \E v \in V : out[v] > 0

\* C9: when a Filter call has run all its lanes, its output holds exactly
\* once every not-yet-deleted vertex whose remaining degree was above k
\* before the call and is at most k now, and holds no other vertex.
C9_FilterOutputExactlyOnce ==
  KFilterDone =>
    \A v \in V :
      out[v] = IF ~deleted[v] /\ DegBeforeFilter(v) > K /\ degrees[v] <= K
               THEN 1 ELSE 0

\* C9 witness: a Filter call has ended in which a vertex lost two or more
\* neighbours, stepped from above k to below k, and is in the output once.
C9_Witness ==
  KFilterDone /\ \E v \in V : /\ ~deleted[v]
                              /\ frontier[v] >= 2
                              /\ degrees[v] < K
                              /\ out[v] = 1

\* C10: at the end of every inner sub-round (and when loop() is entered), degrees[v] of every
\* not-yet-deleted vertex is the number of its neighbours not yet deleted.
C10_DegreeCountsLiveNeighbors ==
  (alg = "kcore" /\ pc = "while") =>
    \A v \in V : ~deleted[v] => degrees[v] = Cardinality(LiveNeighbors(v))

\* C10 witness: a sub-round has ended with a surviving vertex that has lost
\* a neighbour and still has one.
C10_Witness ==
  /\ alg = "kcore" /\ pc = "while"
  /\ \E v \in V : /\ ~deleted[v]
                  /\ degrees[v] > 0
                  /\ degrees[v] < get_number_of_neighbors(v)

-----------------------------------------------------------------------------
(* Reference: Brandes' single-source dependencies *)

RECURSIVE BFSDist(_, _, _, _)
BFSDist(level, seen, d, dist) ==
  IF level = {} THEN dist
  ELSE LET next == {w \in V \ seen : \E u \in level : <<u, w>> \in adj}
       IN BFSDist(next, seen \cup next, d + 1,
                  [v \in V |-> IF v \in next THEN d + 1 ELSE dist[v]])

RefDist ==
  BFSDist({single_source}, {single_source}, 0,
          [v \in V |-> IF v = single_source THEN 0 ELSE -1])

Connected == \A v \in V : RefDist[v] >= 0

Preds(v) == {u \in Neighbors(v) : RefDist[v] > 0 /\ RefDist[u] = RefDist[v] - 1}

Succs(v) == {w \in Neighbors(v) : RefDist[v] >= 0 /\ RefDist[w] = RefDist[v] + 1}

RECURSIVE SigmaRef(_)
RECURSIVE SigmaOver(_)
SigmaOver(S) ==
  IF S = {} THEN 0
  ELSE LET u == CHOOSE x \in S : TRUE
       IN SigmaRef(u) + SigmaOver(S \ {u})

SigmaRef(v) == IF v = single_source THEN 1 ELSE SigmaOver(Preds(v))

RECURSIVE DeltaRef(_)
RECURSIVE DeltaOver(_, _)
DeltaOver(v, S) ==
  IF S = {} THEN Q0
  ELSE LET w == CHOOSE x \in S : TRUE
       IN QAdd(QMul(QDiv(<<SigmaRef(v), 1>>, <<SigmaRef(w), 1>>),
                    QAdd(Q1, DeltaRef(w))),
               DeltaOver(v, S \ {w}))

DeltaRef(v) == DeltaOver(v, Succs(v))

BConverged == alg = "bc" /\ pc = "done"

\* what init() and reset() leave in the arrays of a fresh Problem
FreshK ==
  /\ k_cores = [v \in V |-> 0]
  /\ to_be_deleted = [v \in V |-> FALSE]
  /\ degrees = [v \in V |-> Cardinality(Neighbors(v))]
  /\ deleted = [v \in V |-> Neighbors(v) = {}]

FreshB ==
  /\ sigmas = [v \in V |-> IF v = single_source THEN Q1 ELSE Q0]
  /\ bc_values = [v \in V |-> Q0]
  /\ labels = [v \in V |-> IF v = single_source THEN 0 ELSE -1]
  /\ deltas = [v \in V |-> Q0]

-----------------------------------------------------------------------------
(* Claims about betweenness centrality and about both applications *)

\* C3: from the end of reset until after convergence, sigmas[s] = 1 and
\* bc_values[s] = 0 for the source s, in every state of every round.
C3_SourceSigmaOneBcZero ==
  (alg = "bc" /\ pc # "start") =>
    sigmas[single_source] = Q1 /\ bc_values[single_source] = Q0

\* C3 witness: a run has converged in which neighbours of the source were
\* expanded and some vertex received a centrality value.
C3_Witness ==
  /\ BConverged
  /\ Neighbors(single_source) # {}
  /\ \E v \in V : bc_values[v] # Q0

\* C4: reset after a completed run leaves every Problem array as init and
\* reset leave it on a fresh Problem, and the run that follows ends with the
\* results of a first run: the reference core numbers for k-core, the path
\* counts and halved dependencies for betweenness centrality.
C4_ResetLeavesNoResidue ==
  /\ (alg = "kcore" /\ pc = "reset" /\ run >= 2) => FreshK
  /\ (alg = "bc" /\ pc = "reset" /\ run >= 2) => FreshB
  /\ (KConverged /\ run >= 2) => \A v \in V : k_cores[v] = RefCore[v]
  /\ (BConverged /\ run >= 2) =>
       \A v \in V : /\ sigmas[v] = <<SigmaRef(v), 1>>
                    /\ v # single_source
                         => bc_values[v] = QMul(QHalf, DeltaRef(v))

\* C4 witness: a second k-core run has ended on a Problem whose first run
\* left core numbers 1 and 2 and every flag set.
C4_Witness ==
  /\ KConverged
  /\ run = 2
  /\ \E v, w \in V : k_cores[v] = 1 /\ k_cores[w] = 2

\* C5 as stated: the Frontier is not empty at any point of an active round
\* and is empty once is_converged has returned true.
C5_Original_EmptyExactlyAtConvergence ==
  /\ pc \in {"loop", "while", "advance", "merge", "filter",
             "fadvance", "badvance"} => ~is_empty(frontier)
  /\ pc = "done" => is_empty(frontier)

\* C5 amended: the Frontier is not empty when a round's loop call starts;
\* k-core's loop returns with the Frontier empty; and once is_converged has
\* returned true the Frontier holds the full vertex range [0, n), so that
\* is_empty() is false.
C5_FrontierAtRoundStartAndConvergence ==
  /\ pc = "loop" => ~is_empty(frontier)
  /\ (alg = "kcore" /\ pc = "check" /\ iteration > 0) => is_empty(frontier)
  /\ pc = "done" => (\A v \in V : frontier[v] = 1) /\ ~is_empty(frontier)

\* C5 witness: a betweenness-centrality run has converged after backward
\* rounds, with the Frontier still holding every vertex.
C5_Witness ==
  BConverged /\ iteration >= 4 /\ ~is_empty(frontier)

\* C7: after a run has converged on a connected graph, bc_values[v] of every
\* vertex but the source is half the dependency the Brandes recurrence
\* gives; on the path 0-1-2-3-4 with source 2 that is 0, 1/2, 0, 1/2, 0.
C7_BcValuesAreHalfDependencies ==
  (BConverged /\ Connected) =>
    /\ \A v \in V \ {single_source} :
         bc_values[v] = QMul(QHalf, DeltaRef(v))
    /\ (n = 5 /\ adj = Path5.adj /\ single_source = 2) =>
         bc_values = [v \in V |-> IF v \in {1, 3} THEN QHalf ELSE Q0]

\* C7 witness: the run on the path 0-1-2-3-4 with source 2 has converged.
C7_Witness ==
  /\ BConverged /\ Connected
  /\ n = 5 /\ adj = Path5.adj /\ single_source = 2
  /\ bc_values[1] = QHalf

-----------------------------------------------------------------------------
(* Claims about the phases of betweenness centrality *)

\* a step of a run in progress (not the reset that starts the next run)
BRunStep == alg = "bc" /\ pc \notin {"start", "done"}

\* the forward phase of the run in progress has ended
BForwardOver == alg = "bc" /\ ~forward /\ pc \notin {"start", "reset"}

MaxLabel == CHOOSE m \in {labels[v] : v \in V} :
              \A v \in V : labels[v] <= m

\* C11: in the forward phase labels[v] changes only from the sentinel -1,
\* so at most once per run; a vertex is appended to the output Frontier only
\* by the step that follows its own label's swap, and only once; and when the
\* phase has ended labels[v] is the hop distance from the source, -1 for an
\* unreachable vertex.
C11_LabelsFirstWriterWins ==
  /\ [][BRunStep =>
          \A v \in V :
            /\ labels'[v] # labels[v] =>
                 /\ labels[v] = -1
                 /\ pc = "fadvance"
                 /\ labels'[v] = depth + 1
            /\ (pc = "fadvance" /\ pc' = "fadvance" /\ out'[v] > out[v]) =>
                 /\ out[v] = 0
                 /\ frontier[v] = 0
                 /\ labels[v] = depth + 1]_vars
  /\ [](BForwardOver => \A v \in V : labels[v] = RefDist[v])

\* C11 witness: an Advance of the forward phase has run all its lanes, and a
\* vertex reached over two edges in that call is in its output once.
C11_Witness ==
  /\ alg = "bc" /\ pc = "fadvance"
  /\ ~LanesLeft(pend) /\ ~LanesLeft(mid)
  /\ \E v \in V : /\ out[v] = 1
                  /\ Cardinality({u \in Neighbors(v) : frontier[u] > 0}) >= 2

\* C12: when the forward phase has ended sigmas[v] is the number of shortest
\* paths from the source to v; during a forward round only vertices of the
\* next level (labels[w] = depth + 1) have their sigma added to, so the
\* sigmas read, those of the Frontier's vertices, are not modified.
C12_SigmasCountShortestPaths ==
  /\ [][(BRunStep /\ pc = "fadvance") =>
          \A w \in V :
            /\ sigmas'[w] # sigmas[w] =>
                 /\ labels[w] = depth + 1
                 /\ \E u \in Neighbors(w) :
                      /\ frontier[u] > 0
                      /\ labels[w] = labels[u] + 1
                      /\ sigmas'[w] = QAdd(sigmas[w], sigmas[u])
            /\ frontier[w] > 0 => sigmas'[w] = sigmas[w]]_vars
  /\ [](BForwardOver => \A v \in V : sigmas[v] = <<SigmaRef(v), 1>>)

\* C12 witness: the forward phase has ended with a vertex that two shortest
\* paths reach.
C12_Witness ==
  BForwardOver /\ \E v \in V : sigmas[v] = <<2, 1>>

\* C13: within a run the phase flag changes only from forward to backward,
\* and does so exactly at the is_converged call that finds the Frontier
\* empty; that call reseeds the Frontier to [0, n), sets depth to
\* iteration - 1, which is the largest label assigned, and returns false.
C13_PhaseSwitchesOnce ==
  [][BRunStep =>
       /\ (forward' # forward /\ pc # "reset") =>
            /\ forward /\ ~forward'
            /\ pc = "check" /\ is_empty(frontier)
            /\ \A v \in V : frontier'[v] = 1
            /\ depth' = iteration - 1
            /\ depth' = MaxLabel
            /\ pc' = "loop"
       /\ (pc = "check" /\ forward /\ is_empty(frontier)) => ~forward'
       /\ (pc = "check" /\ forward /\ ~is_empty(frontier)) =>
            forward' /\ pc' = "loop"]_vars

\* C13 witness: the phase has just switched after three forward rounds.
C13_Witness ==
  /\ alg = "bc" /\ ~forward /\ pc = "loop"
  /\ iteration = 3 /\ depth = 2

C15_Original_BcTerminates ==
  (alg = "bc" /\ ~forward /\ pc \in {"check", "loop", "badvance"})
    => depth >= 0

-----------------------------------------------------------------------------
(* Claims about the rounds of k-core *)

\* a step of a k-core run in progress
KRunStep == alg = "kcore" /\ pc \notin {"start", "done"}

MaxDegree == CHOOSE m \in 0..n :
               /\ \A v \in V : get_number_of_neighbors(v) <= m
               /\ \/ V = {}
                  \/ \E v \in V : get_number_of_neighbors(v) = m

C17_KcoreMonotone ==
  /\ [][(KRunStep /\ pc # "reset") =>
          \A v \in V :
            /\ k_cores'[v] # k_cores[v] =>
                 /\ pc = "advance"
                 /\ ~deleted[v]
                 /\ degrees[v] <= K
                 /\ to_be_deleted'[v]
                 /\ k_cores'[v] = K
            /\ deleted[v] => (deleted'[v] /\ k_cores'[v] = k_cores[v])
            /\ (deleted'[v] /\ ~deleted[v]) =>
                 (pc = "merge" /\ to_be_deleted[v] /\ k_cores[v] = K)
            /\ degrees'[v] <= degrees[v]]_vars
  /\ [](alg = "kcore" /\ pc = "loop"
          => \A v \in V : ~deleted[v] => degrees[v] >= K)

\* C17 witness: the second round starts with a vertex still not deleted
\* while another was deleted in the first round.
C17_Witness ==
  /\ alg = "kcore" /\ pc = "loop" /\ K = 2
  /\ \E v, w \in V : ~deleted[v] /\ deleted[w] /\ k_cores[w] = 1

\* C18: when reset has returned, of a first run or a later one, k-core has
\* k_cores[v] = 0, to_be_deleted[v] false, degrees[v] the number of
\* neighbours of v and deleted[v] true exactly for a v without neighbours;
\* BC has sigmas, bc_values and deltas 0 and labels -1, except sigmas 1 and
\* label 0 at the source.
C18_ResetValues ==
  /\ (alg = "kcore" /\ pc = "reset") =>
       \A v \in V :
         /\ k_cores[v] = 0
         /\ to_be_deleted[v] = FALSE
         /\ degrees[v] = Cardinality({w \in V : <<v, w>> \in adj})
         /\ deleted[v] = (~ \E w \in V : <<v, w>> \in adj)
  /\ (alg = "bc" /\ pc = "reset") =>
       \A v \in V :
         /\ sigmas[v] = IF v = single_source THEN <<1, 1>> ELSE <<0, 1>>
         /\ bc_values[v] = <<0, 1>>
         /\ deltas[v] = <<0, 1>>
         /\ labels[v] = IF v = single_source THEN 0 ELSE -1

\* C18 witness: the reset before a second run has returned on a graph that
\* has a vertex without neighbours and a vertex with one.
C18_Witness ==
  /\ alg = "kcore" /\ pc = "reset" /\ run = 2
  /\ \E v, w \in V : degrees[v] = 0 /\ deleted[v] /\ degrees[w] = 1
                      /\ ~deleted[w]

\* C19: a backward round (from the entry of loop() to the end of its
\* Advance) leaves labels, sigmas and the Frontier unchanged, the Frontier
\* being the full vertex range, and puts nothing in the output; within it
\* deltas[v] and bc_values[v] change only for v with labels[v] = depth other
\* than the source.  A forward round leaves deltas and bc_values unchanged.
C19_BcRoundFrames ==
  [][(alg = "bc") =>
       /\ (pc = "badvance" \/ (pc = "loop" /\ ~forward)) =>
            /\ labels' = labels
            /\ sigmas' = sigmas
            /\ frontier' = frontier
            /\ \A v \in V : frontier[v] = 1
            /\ is_empty(out) /\ is_empty(out')
            /\ \A v \in V :
                 (deltas'[v] # deltas[v] \/ bc_values'[v] # bc_values[v]) =>
                   /\ pc = "badvance"
                   /\ labels[v] = depth
                   /\ v # single_source
       /\ (pc = "fadvance" \/ (pc = "loop" /\ forward)) =>
            /\ deltas' = deltas
            /\ bc_values' = bc_values]_vars

\* C19 witness: a backward round at depth 1 is under way after the round at
\* depth 2 added to the dependency of a vertex.
C19_Witness ==
  /\ alg = "bc" /\ pc = "badvance" /\ depth = 1
  /\ \E v \in V : labels[v] = 2 /\ \E w \in V : labels[w] = 1 /\ deltas[w] # Q0

\* C20: two k-core runs on the same graph, each with its lanes in an order
\* of its own, end with the same k_cores and deleted arrays after the same
\* number of rounds and of inner sub-rounds (prev holds what the earlier run
\* ended with); no Advance step writes deleted or degrees, and a Filter lane
\* writes nothing shared but its one decrement of degrees.
C20_LaneOrderDoesNotMatter ==
  /\ [](KConverged /\ run >= 2 =>
          /\ k_cores = prev.k_cores
          /\ deleted = prev.deleted
          /\ iteration = prev.rounds
          /\ subrounds = prev.subrounds)
  /\ [][(alg = "kcore" /\ pc = "advance") =>
          deleted' = deleted /\ degrees' = degrees]_vars
  /\ [][(alg = "kcore" /\ pc = "filter" /\ pc' = "filter") =>
          /\ k_cores' = k_cores
          /\ deleted' = deleted
          /\ to_be_deleted' = to_be_deleted
          /\ \/ degrees' = degrees
             \/ \E v \in V : /\ ~deleted[v]
                             /\ degrees' = [degrees EXCEPT ![v] = @ - 1]]_vars

\* C20 witness: a second run has converged on a graph where a marked vertex
\* had two lanes in one Advance and the inner loop ran several sub-rounds.
C20_Witness ==
  /\ KConverged /\ run = 2
  /\ prev.subrounds >= 3
  /\ \E v \in V : k_cores[v] = 1 /\ get_number_of_neighbors(v) = 2

-----------------------------------------------------------------------------

InitK ==
  /\ alg = "kcore"
  /\ \E g \in Graphs : n = g.n /\ adj = g.adj
  /\ run = 0
  /\ pc = "start"
  /\ iteration = 0
  /\ frontier = EmptyFrontier
  /\ out = EmptyFrontier
  /\ pend = NoLanes
  /\ mid = NoLanes
  /\ \E garbage \in {0, 7} : KInitArrays(garbage)
  /\ single_source = 0
  /\ sigmas = <<>>
  /\ bc_values = <<>>
  /\ labels = <<>>
  /\ deltas = <<>>
  /\ forward = TRUE
  /\ depth = 0
  /\ subrounds = 0
  /\ prev = <<>>

InitB ==
  /\ alg = "bc"
  /\ \E g \in Graphs : n = g.n /\ adj = g.adj
  /\ run = 0
  /\ pc = "start"
  /\ iteration = 0
  /\ frontier = EmptyFrontier
  /\ out = EmptyFrontier
  /\ pend = NoLanes
  /\ mid = NoLanes
  /\ \E garbage \in {Q0, <<7, 1>>} : BInitArrays(garbage)
  /\ single_source \in V
  /\ k_cores = <<>>
  /\ degrees = <<>>
  /\ deleted = <<>>
  /\ to_be_deleted = <<>>
  /\ forward = TRUE
  /\ depth = 0
  /\ subrounds = 0
  /\ prev = <<>>

Init == InitK \/ InitB

NextK ==
  \/ KReset
  \/ KPrepare
  \/ KIsConverged
  \/ KLoop
  \/ KLoopWhile
  \/ KAdvanceLane
  \/ KAdvanceEnd
  \/ KMarkDeleted
  \/ KFilterLane
  \/ KFilterEnd

NextB ==
  \/ BReset
  \/ BPrepare
  \/ BIsConverged
  \/ BLoop
  \/ BForwardCas
  \/ BForwardAdd
  \/ BForwardEnd
  \/ BBackwardLane
  \/ BBackwardEnd

Next == NextK \/ NextB

Spec == Init /\ [][Next]_vars

\* A k-core run on its own, with the control path and every launched lane
\* running to completion (no cancellation inside a round, full barriers).
FairSpecK == InitK /\ [][NextK]_vars /\ WF_vars(NextK)

\* A betweenness-centrality run on its own, under the same scheduling.
FairSpecB == InitB /\ [][NextB]_vars /\ WF_vars(NextB)

=============================================================================
